---- MODULE Spec2Model ----
(***************************************************************************)
(* Model of the static XML feed transformer (transform.py) and of the      *)
(* ozone partner profile (partners/ozone/config.py).                       *)
(*                                                                         *)
(* A Python str is a sequence of one-character strings, so that strip(),   *)
(* lower() and the "]]>" test of a CDATA section are computed, not assumed.*)
(***************************************************************************)
EXTENDS Integers, Sequences, FiniteSets, TLC

\* ------------------------------------------------------------------ bounds
\* Largest number of product nodes in a source document.
MaxProducts == 3
\* Largest number of results an XPath evaluation returns in the unit harness.
MaxResults == 2

\* ------------------------------------------------------------ Python str
Whitespace == {" ", "\n", "\t"}

UpperChars == <<"I", "N", "S", "T", "O", "C", "K", "U", "F">>
LowerChars == <<"i", "n", "s", "t", "o", "c", "k", "u", "f">>

\* str.lower() on one character.
lower_char(c) ==
    IF \E i \in 1..Len(UpperChars) : UpperChars[i] = c
    THEN LowerChars[CHOOSE i \in 1..Len(UpperChars) : UpperChars[i] = c]
    ELSE c

\* str.lower()
lower(s) == [i \in 1..Len(s) |-> lower_char(s[i])]

RECURSIVE lstrip(_)
lstrip(s) == IF s # <<>> /\ Head(s) \in Whitespace THEN lstrip(Tail(s)) ELSE s

RECURSIVE rstrip(_)
rstrip(s) ==
    IF s # <<>> /\ s[Len(s)] \in Whitespace
    THEN rstrip(SubSeq(s, 1, Len(s) - 1))
    ELSE s

\* str.strip()
strip(s) == rstrip(lstrip(s))

\* "]]>" in s
ContainsCdataEnd(s) ==
    \E i \in 1..(Len(s) - 2) : s[i] = "]" /\ s[i + 1] = "]" /\ s[i + 2] = ">"

\* dict.get(key, default)
DictGet(d, key, default) == IF key \in DOMAIN d THEN d[key] ELSE default

\* ---------------------------------------------- partners/ozone/config.py
SOURCE_FEED_URL == "https://parvolache.com/module.php"

SOURCE_NAMESPACE == [sc |-> "http://schemas.summercart.com/dealer/v1"]

\* The keys of FIELD_MAPPINGS in declaration order; the XPath of each key
\* selects the text nodes of one child element of the product node.
FIELD_MAPPINGS ==
    <<"catalog_num", "name", "price", "price_client", "quantity_label",
      "barcode", "brand", "category", "color">>

\* The Cyrillic words of STOCK_MAPPING and DEFAULTS["available"], transliterated.
Da == <<"D", "a">>
Ne == <<"N", "e">>
NA == <<"N", "/", "A">>
Zero == <<"0">>
Instock == <<"i", "n", "s", "t", "o", "c", "k">>
Outofstock == <<"o", "u", "t", "o", "f", "s", "t", "o", "c", "k">>

STOCK_MAPPING == [k \in {Instock, Outofstock} |-> IF k = Instock THEN Da ELSE Ne]

DEFAULTS ==
    [catalog_num |-> <<>>, name |-> <<>>, price |-> Zero, price_client |-> Zero,
     available |-> Ne, barcode |-> NA, brand |-> NA, category |-> <<>>,
     color |-> NA]

\* Each field: <<xml_tag, required, use_cdata>>
OUTPUT_SCHEMA ==
    << <<"catalog_num", TRUE, FALSE>>,
       <<"name", TRUE, TRUE>>,
       <<"price", TRUE, FALSE>>,
       <<"price_client", TRUE, FALSE>>,
       <<"available", FALSE, FALSE>>,
       <<"barcode", FALSE, TRUE>>,
       <<"brand", FALSE, TRUE>>,
       <<"category", FALSE, TRUE>>,
       <<"color", FALSE, TRUE>> >>

OUTPUT_ROOT_ELEMENT == "products"

OUTPUT_PRODUCT_ELEMENT == "item"

\* Python's "x or y" on strings.
Or(x, y) == IF x # <<>> THEN x ELSE y

\* transform_product without the .lower() of the label.
transform_product_exact(product_data) ==
    LET quantity_label == DictGet(product_data, "quantity_label", <<>>)
        available == DictGet(STOCK_MAPPING, quantity_label, DEFAULTS.available)
    IN  [catalog_num |-> DictGet(product_data, "catalog_num", DEFAULTS.catalog_num),
         name |-> DictGet(product_data, "name", DEFAULTS.name),
         price |-> DictGet(product_data, "price", DEFAULTS.price),
         price_client |-> DictGet(product_data, "price_client", DEFAULTS.price_client),
         available |-> available,
         barcode |-> Or(DictGet(product_data, "barcode", DEFAULTS.barcode), DEFAULTS.barcode),
         brand |-> Or(DictGet(product_data, "brand", DEFAULTS.brand), DEFAULTS.brand),
         category |-> Or(DictGet(product_data, "category", DEFAULTS.category), DEFAULTS.category),
         color |-> Or(DictGet(product_data, "color", DEFAULTS.color), DEFAULTS.color)]

transform_product(product_data) ==
    LET quantity_label == lower(DictGet(product_data, "quantity_label", <<>>))
        available == DictGet(STOCK_MAPPING, quantity_label, DEFAULTS.available)
    IN  [catalog_num |-> DictGet(product_data, "catalog_num", DEFAULTS.catalog_num),
         name |-> DictGet(product_data, "name", DEFAULTS.name),
         price |-> DictGet(product_data, "price", DEFAULTS.price),
         price_client |-> DictGet(product_data, "price_client", DEFAULTS.price_client),
         available |-> available,
         barcode |-> Or(DictGet(product_data, "barcode", DEFAULTS.barcode), DEFAULTS.barcode),
         brand |-> Or(DictGet(product_data, "brand", DEFAULTS.brand), DEFAULTS.brand),
         category |-> Or(DictGet(product_data, "category", DEFAULTS.category), DEFAULTS.category),
         color |-> Or(DictGet(product_data, "color", DEFAULTS.color), DEFAULTS.color)]

\* ------------------------------------------------- transform.py: extract_text
\* What element.xpath(xpath, **kwargs) produces: an exception, a list of
\* results (text results are str, element results are not), or a scalar
\* (XPath number, boolean or string).
XPathRaise == [kind |-> "raise", items |-> <<>>, text |-> <<>>, truthy |-> FALSE]
XPathList(items) == [kind |-> "list", items |-> items, text |-> <<>>, truthy |-> items # <<>>]
XPathNumber(nonzero) == [kind |-> "number", items |-> <<>>, text |-> <<>>, truthy |-> nonzero]
XPathBool(b) == [kind |-> "bool", items |-> <<>>, text |-> <<>>, truthy |-> b]
XPathString(s) == [kind |-> "string", items |-> <<>>, text |-> s, truthy |-> s # <<>>]

\* One result of a list: a text result (isinstance(r, str)) or an element,
\* with what str(r) gives.
TextResult(s) == [isstr |-> TRUE, str |-> s]
ElementResult == [isstr |-> FALSE, str |-> <<"<", "E", "l", "e", "m", "e", "n", "t", ">">>]

\* extract_text returning the stripped text even when it is empty.
extract_text_nodefault(result, default) ==
    IF result.kind = "raise" THEN default
    ELSE IF ~result.truthy THEN default
    ELSE IF result.kind \in {"number", "bool"} THEN default
    ELSE LET first == IF result.kind = "list" THEN result.items[1]
                      ELSE TextResult(<<result.text[1]>>)
         IN  IF first.isstr THEN strip(first.str) ELSE <<>>

\* extract_text(element, xpath, default, namespaces), given the outcome of
\* element.xpath: an exception anywhere in the try block (the evaluation, or
\* result[0] on a number or boolean) falls through to "return default".
extract_text(result, default) ==
    IF result.kind = "raise" THEN default
    ELSE IF ~result.truthy THEN default
    ELSE IF result.kind \in {"number", "bool"} THEN default
    ELSE LET first == IF result.kind = "list" THEN result.items[1]
                      ELSE TextResult(<<result.text[1]>>)
             text == IF first.isstr THEN strip(first.str) ELSE <<>>
         IN  IF text # <<>> THEN text ELSE default


\* ------------------------------------------------------------ source feeds
\* A product node: for each FIELD_MAPPINGS key, the texts its XPath selects.
ProductNode(name, barcode) ==
    [catalog_num |-> << <<"c">> >>,
     name |-> name,
     price |-> << <<"9">> >>,
     price_client |-> <<>>,
     quantity_label |-> << <<"I", "n", "S", "t", "o", "c", "k">> >>,
     barcode |-> barcode,
     brand |-> << <<"B">>, <<"x">> >>,
     category |-> <<>>,
     color |-> << <<"\n">> >>]

ProductNodes ==
    { ProductNode(name, barcode) :
        name \in {<<>>, << <<" ", "t", "o", "y", " ">> >>, << <<"a", "]", "]", ">", "b">> >>},
        barcode \in {<<>>, << <<"]", "]", ">">> >>} }

RECURSIVE SeqsUpTo(_, _)
SeqsUpTo(S, n) ==
    IF n = 0 THEN {<<>>}
    ELSE LET shorter == SeqsUpTo(S, n - 1)
         IN  shorter \cup {Append(q, x) : q \in {r \in shorter : Len(r) = n - 1}, x \in S}

\* response.text: text that is not well-formed XML, or a document with its
\* //sc:Products/sc:Product nodes in document order.
Malformed == [wellformed |-> FALSE, products |-> <<>>]
Contents ==
    {Malformed} \cup
    {[wellformed |-> TRUE, products |-> d] : d \in SeqsUpTo(ProductNodes, MaxProducts)}

\* What requests.get(url, timeout=30) does: a response, or a RequestException
\* before any response.
FetchOutcomes ==
    {[kind |-> "response", status |-> 200, text |-> c] : c \in Contents} \cup
    {[kind |-> "response", status |-> st, text |-> Malformed] : st \in {404, 500}} \cup
    {[kind |-> k, status |-> 0, text |-> Malformed] : k \in {"connection_error", "timeout"}}

NoResponse == [kind |-> "none", status |-> 0, text |-> Malformed]

\* response.raise_for_status() raises HTTPError
raise_for_status_never(r) == FALSE

raise_for_status(r) == 400 <= r.status /\ r.status < 600

\* sys.argv
Argvs == {<<"transform.py">>, <<"transform.py", "ozone">>, <<"transform.py", "amazon">>}

\* The packages partners/<name>/config.py of the repository.
PARTNERS == {"ozone"}

\* What the file system does to write_output.
WriteOutcomes == {"ok", "mkdir_error", "io_error"}

\* ----------------------------------------------------------------- state
VARIABLES
    pc,            \* the stage main() is at
    argv,          \* sys.argv
    network_gets,  \* number of HTTP GETs issued
    response,      \* outcome of requests.get
    source_root,   \* product nodes of the parsed source document
    products_root, \* children (item elements) of the output root element
    idx,           \* enumerate(product_elements, 1)
    dropped,       \* indexes that took "continue" on missing_required
    errored,       \* indexes whose exception reached "except Exception"
    output_file,   \* output/<partner>/partner.xml
    write_outcome, \* what the file system did to write_output
    errors,        \* logger.error messages, by origin
    exit_status,   \* <<>> while running, <<code>> once the process has exited
    ex,            \* unit harness: a call of extract_text
    tp             \* unit harness: a call of transform_product

vars ==
    <<pc, argv, network_gets, response, source_root, products_root, idx, dropped,
      errored, output_file, write_outcome, errors, exit_status, ex, tp>>

pipeline_vars ==
    <<pc, argv, network_gets, response, source_root, products_root, idx, dropped,
      errored, output_file, write_outcome, errors, exit_status>>

NoExtractCall == [called |-> FALSE, result |-> XPathRaise, default |-> <<>>, out |-> <<>>]
NoProductCall == [called |-> FALSE, product_data |-> <<>>, out |-> <<>>]

InitPipeline ==
    /\ pc = "load"
    /\ network_gets = 0
    /\ response = NoResponse
    /\ source_root = <<>>
    /\ products_root = <<>>
    /\ idx = 0
    /\ dropped = {}
    /\ errored = {}
    /\ write_outcome = "none"
    /\ errors = <<>>
    /\ exit_status = <<>>

Init ==
    /\ InitPipeline
    /\ argv \in Argvs
    /\ output_file \in {[state |-> "absent", root |-> <<>>], [state |-> "old", root |-> <<>>]}
    /\ ex = NoExtractCall
    /\ tp = NoProductCall

\* sys.exit(1) after logger.error
Exit1(origin) ==
    /\ errors' = Append(errors, origin)
    /\ exit_status' = <<1>>
    /\ pc' = "done"

\* ------------------------------------------------------ main, stage by stage
LoadPartnerConfig ==
    /\ pc = "load"
    /\ LET partner_name == IF Len(argv) > 1 THEN argv[2] ELSE "ozone"
       IN  IF partner_name \in PARTNERS
           THEN /\ pc' = "fetch"
                /\ UNCHANGED <<errors, exit_status>>
           ELSE Exit1("config")
    /\ UNCHANGED <<argv, network_gets, response, source_root, products_root, idx,
                   dropped, errored, output_file, write_outcome, ex, tp>>

FetchSourceFeed ==
    /\ pc = "fetch"
    /\ \E r \in FetchOutcomes :
        /\ network_gets' = network_gets + 1
        /\ response' = r
        /\ IF r.kind # "response" \/ raise_for_status(r)
           THEN Exit1("fetch")
           ELSE /\ pc' = "parse"
                /\ UNCHANGED <<errors, exit_status>>
    /\ UNCHANGED <<argv, source_root, products_root, idx, dropped, errored,
                   output_file, write_outcome, ex, tp>>

ParseXml ==
    /\ pc = "parse"
    /\ IF ~response.text.wellformed
       THEN /\ Exit1("parse")
            /\ UNCHANGED source_root
       ELSE /\ source_root' = response.text.products
            /\ pc' = "transform"
            /\ UNCHANGED <<errors, exit_status>>
    /\ UNCHANGED <<argv, network_gets, response, products_root, idx, dropped, errored,
                   output_file, write_outcome, ex, tp>>

\* transform_feed that treats "no products" as a fatal error.
TransformFeedStrict ==
    /\ pc = "transform"
    /\ products_root' = <<>>
    /\ IF source_root = <<>>
       THEN /\ Exit1("transform")
            /\ UNCHANGED idx
       ELSE /\ pc' = "loop"
            /\ idx' = 1
            /\ UNCHANGED <<errors, exit_status>>
    /\ UNCHANGED <<argv, network_gets, response, source_root, dropped, errored,
                   output_file, write_outcome, ex, tp>>

\* transform_feed up to the for loop.
TransformFeed ==
    /\ pc = "transform"
    /\ products_root' = <<>>
    /\ IF source_root = <<>>
       THEN /\ pc' = "write"
            /\ UNCHANGED idx
       ELSE /\ pc' = "loop"
            /\ idx' = 1
    /\ UNCHANGED <<argv, network_gets, response, source_root, dropped, errored,
                   output_file, write_outcome, errors, exit_status, ex, tp>>

\* product_data of one product node
ExtractProductData(product) ==
    [f \in {FIELD_MAPPINGS[i] : i \in 1..Len(FIELD_MAPPINGS)} |->
        extract_text(XPathList([j \in 1..Len(product[f]) |-> TextResult(product[f][j])]),
                     DictGet(DEFAULTS, f, <<>>))]

\* The names of the required schema entries that output_fields lacks.
MissingRequired(output_fields) ==
    LET Missing(field_info) ==
            field_info[2] /\ DictGet(output_fields, field_info[1], <<>>) = <<>>
        sel == SelectSeq(OUTPUT_SCHEMA, Missing)
    IN  [i \in 1..Len(sel) |-> sel[i][1]]

\* The loop over OUTPUT_SCHEMA that fills product_elem, from entry k on:
\* the children of product_elem and whether etree.CDATA(value) raised.
RECURSIVE AddFields(_, _, _)
AddFields(k, output_fields, children) ==
    IF k > Len(OUTPUT_SCHEMA) THEN [children |-> children, raised |-> FALSE]
    ELSE LET field_info == OUTPUT_SCHEMA[k]
             field_name == field_info[1]
             use_cdata == IF Len(field_info) > 2 THEN field_info[3] ELSE FALSE
         IN  IF field_name \in DOMAIN output_fields
             THEN LET value == output_fields[field_name]
                  IN  IF use_cdata /\ value # <<>>
                      THEN IF ContainsCdataEnd(value)
                           THEN [children |->
                                    Append(children,
                                           [tag |-> field_name, text |-> <<>>,
                                            set |-> FALSE, cdata |-> FALSE]),
                                 raised |-> TRUE]
                           ELSE AddFields(k + 1, output_fields,
                                    Append(children,
                                           [tag |-> field_name, text |-> value,
                                            set |-> TRUE, cdata |-> TRUE]))
                      ELSE AddFields(k + 1, output_fields,
                               Append(children,
                                      [tag |-> field_name, text |-> value,
                                       set |-> TRUE, cdata |-> FALSE]))
             ELSE AddFields(k + 1, output_fields, children)

\* SubElement placing the new element first.
SubElementFirst(parent, elem) == <<elem>> \o parent

\* etree.SubElement(parent, tag): the new element becomes the last child.
SubElement(parent, elem) == Append(parent, elem)

\* One iteration of the for loop of transform_feed, try/except included.
ProcessProduct ==
    /\ pc = "loop"
    /\ idx <= Len(source_root)
    /\ LET product_data == ExtractProductData(source_root[idx])
           output_fields == transform_product(product_data)
           missing_required == MissingRequired(output_fields)
           built == AddFields(1, output_fields, <<>>)
       IN  IF missing_required # <<>>
           THEN /\ dropped' = dropped \cup {idx}
                /\ UNCHANGED <<products_root, errored>>
           ELSE /\ products_root' =
                      SubElement(products_root, [src |-> idx, children |-> built.children])
                /\ errored' = IF built.raised THEN errored \cup {idx} ELSE errored
                /\ UNCHANGED dropped
    /\ idx' = idx + 1
    /\ pc' = IF idx = Len(source_root) THEN "write" ELSE "loop"
    /\ UNCHANGED <<argv, network_gets, response, source_root, output_file,
                   write_outcome, errors, exit_status, ex, tp>>

\* write_output whose IOError handler does not exit.
WriteOutputSwallow ==
    /\ pc = "write"
    /\ \E w \in WriteOutcomes :
        /\ write_outcome' = w
        /\ CASE w = "ok" ->
                  /\ output_file' = [state |-> "written", root |-> products_root]
                  /\ exit_status' = <<0>>
                  /\ pc' = "done"
                  /\ UNCHANGED errors
             [] w = "mkdir_error" ->
                  /\ Exit1("unexpected")
                  /\ UNCHANGED output_file
             [] w = "io_error" ->
                  /\ output_file' \in {output_file, [state |-> "truncated", root |-> <<>>]}
                  /\ errors' = Append(errors, "write")
                  /\ exit_status' = <<0>>
                  /\ pc' = "done"
    /\ UNCHANGED <<argv, network_gets, response, source_root, products_root, idx,
                   dropped, errored, ex, tp>>

\* write_output and the end of main: mkdir raises outside the try block and
\* reaches main's "except Exception"; tree.write raises IOError inside it.
WriteOutput ==
    /\ pc = "write"
    /\ \E w \in WriteOutcomes :
        /\ write_outcome' = w
        /\ CASE w = "ok" ->
                  /\ output_file' = [state |-> "written", root |-> products_root]
                  /\ exit_status' = <<0>>
                  /\ pc' = "done"
                  /\ UNCHANGED errors
             [] w = "mkdir_error" ->
                  /\ Exit1("unexpected")
                  /\ UNCHANGED output_file
             [] w = "io_error" ->
                  /\ output_file' \in {output_file, [state |-> "truncated", root |-> <<>>]}
                  /\ Exit1("write")
    /\ UNCHANGED <<argv, network_gets, response, source_root, products_root, idx,
                   dropped, errored, ex, tp>>

Next ==
    \/ LoadPartnerConfig
    \/ FetchSourceFeed
    \/ ParseXml
    \/ TransformFeed
    \/ ProcessProduct
    \/ WriteOutput

Spec == Init /\ [][Next]_vars


\* --------------------------------------------- the two pure functions alone
Texts == {<<>>, <<" ">>, <<" ", "a", "\n">>, <<"b">>}

Results == {TextResult(s) : s \in Texts} \cup {ElementResult}

XPathResults ==
    {XPathRaise} \cup
    {XPathList(l) : l \in SeqsUpTo(Results, MaxResults)} \cup
    {XPathNumber(b) : b \in BOOLEAN} \cup
    {XPathBool(b) : b \in BOOLEAN} \cup
    {XPathString(s) : s \in Texts}

DefaultTexts == {<<>>, Zero, NA}

Labels ==
    {<<>>, Instock, Outofstock,
     <<"I", "n", "S", "t", "o", "c", "k">>,
     <<"I", "N", "S", "T", "O", "C", "K">>,
     <<"O", "u", "t", "O", "f", "S", "t", "o", "c", "k">>,
     <<"i", "n", "s", "t", "o", "k">>,
     <<"i", "n", " ", "s", "t", "o", "c", "k">>,
     <<"x">>}

\* Dictionaries handed to transform_product: with and without the
\* quantity_label key, with a missing, empty or filled barcode.
ProductDatas ==
    LET base == [catalog_num |-> <<"c">>, name |-> <<"t">>]
        withLabel == {base @@ [quantity_label |-> l] : l \in Labels} \cup {base}
    IN  withLabel \cup
        {d @@ [barcode |-> b] : d \in withLabel, b \in {<<>>, <<"7">>}}

InitUnit ==
    /\ InitPipeline
    /\ argv = <<"transform.py">>
    /\ output_file = [state |-> "absent", root |-> <<>>]
    /\ ex = NoExtractCall
    /\ tp = NoProductCall

CallExtractText ==
    /\ ~ex.called
    /\ \E result \in XPathResults, default \in DefaultTexts :
         ex' = [called |-> TRUE, result |-> result, default |-> default,
                out |-> extract_text(result, default)]
    /\ UNCHANGED <<pipeline_vars, tp>>

CallTransformProduct ==
    /\ ~tp.called
    /\ \E product_data \in ProductDatas :
         tp' = [called |-> TRUE, product_data |-> product_data,
                out |-> transform_product(product_data)]
    /\ UNCHANGED <<pipeline_vars, ex>>

NextUnit ==
    \/ CallExtractText
    \/ CallTransformProduct

SpecUnit == InitUnit /\ [][NextUnit]_vars


\* ------------------------------------------------- vocabulary of the claims
\* The Output Product Record of the i-th source product.
RecordOf(i) == transform_product(ExtractProductData(source_root[i]))

\* The source indexes of the item elements, in output order.
ItemSources == [k \in 1..Len(products_root) |-> products_root[k].src]

\* transform_feed has returned.
Transformed == pc = "write" \/ (pc = "done" /\ write_outcome # "none")

PartnerName == IF Len(argv) > 1 THEN argv[2] ELSE "ozone"

FetchFailed ==
    \/ response.kind \in {"connection_error", "timeout"}
    \/ response.kind = "response" /\ response.status \in {404, 500}

ParseFailed ==
    response.kind = "response" /\ response.status = 200 /\ ~response.text.wellformed

WriteFailed == write_outcome \in {"mkdir_error", "io_error"}

\* The schema entries a record has a value for, in schema order.
PresentEntries(record) ==
    LET Present(field_info) == field_info[1] \in DOMAIN record
    IN  SelectSeq(OUTPUT_SCHEMA, Present)

\* C1: a product whose processing raised an exception leaves no item element
\* (whole or partial) in the output, and every later product is still
\* processed.
C1_ErroredLeavesNoTrace ==
    /\ \A i \in errored : \A k \in 1..Len(products_root) : products_root[k].src # i
    /\ Transformed =>
         \A i \in 1..Len(source_root) :
            i \in dropped \/ i \in errored \/ \E k \in 1..Len(products_root) : ItemSources[k] = i

\* C2: the number of item elements is the number of source products minus
\* those dropped by validation and those that raised; never more than the
\* number of source products.
C2_ItemCount ==
    Transformed =>
        /\ Len(products_root) =
              Len(source_root) - Cardinality(dropped) - Cardinality(errored)
        /\ Len(products_root) <= Len(source_root)

\* C3: a product whose record lacks a required value has no item, and every
\* item element carries a non-empty value for every required schema field.
C3_RequiredPresent ==
    /\ \A i \in 1..Len(source_root) :
          MissingRequired(RecordOf(i)) # <<>> =>
             \A k \in 1..Len(products_root) : ItemSources[k] # i
    /\ \A k \in 1..Len(products_root) :
          \A j \in 1..Len(OUTPUT_SCHEMA) :
             OUTPUT_SCHEMA[j][2] =>
                \E c \in 1..Len(products_root[k].children) :
                   /\ products_root[k].children[c].tag = OUTPUT_SCHEMA[j][1]
                   /\ products_root[k].children[c].text # <<>>

\* C4: item elements appear in the relative order of the source products
\* they were produced from, whatever was dropped in between.
C4_OrderPreserved ==
    \A a, b \in 1..Len(products_root) : a < b => ItemSources[a] < ItemSources[b]

C4_Witness ==
    /\ pc = "write"
    /\ Len(source_root) = 3
    /\ dropped = {2}
    /\ ItemSources = <<1, 3>>

C6_ExitStatus ==
    /\ pc # "done" => exit_status = <<>>
    /\ pc = "done" =>
         /\ exit_status \in {<<0>>, <<1>>}
         /\ exit_status = <<0>> <=>
               ~(PartnerName \notin PARTNERS \/ FetchFailed \/ ParseFailed \/ WriteFailed)

C6_Witness ==
    /\ pc = "done"
    /\ write_outcome = "ok"
    /\ dropped # {}
    /\ errored # {}
    /\ exit_status = <<0>>

\* C8: a well-formed source document without product nodes gives an output
\* root with no children, logs no error, goes on to the write stage and, the
\* write succeeding, exits with 0 leaving the childless root in the file.
C8_EmptySource ==
    (/\ response.kind = "response"
     /\ response.status = 200
     /\ response.text.wellformed
     /\ response.text.products = <<>>
     /\ pc \notin {"parse", "transform"}) =>
        /\ pc \in {"write", "done"}
        /\ products_root = <<>>
        /\ pc = "write" => errors = <<>> /\ exit_status = <<>>
        /\ pc = "done" => write_outcome # "none"
        /\ (pc = "done" /\ write_outcome = "ok") =>
              /\ exit_status = <<0>>
              /\ errors = <<>>
              /\ output_file = [state |-> "written", root |-> <<>>]

C8_Witness ==
    /\ pc = "done"
    /\ response.kind = "response"
    /\ response.text.wellformed
    /\ response.text.products = <<>>
    /\ write_outcome = "ok"
    /\ exit_status = <<0>>

\* C10: every item element has exactly one child per schema entry that is a
\* key of the product's record, in schema order, with the record's value as
\* text, and no other child.
C10_ItemChildren ==
    \A k \in 1..Len(products_root) :
        LET record == RecordOf(products_root[k].src)
            expected == PresentEntries(record)
            children == products_root[k].children
        IN  /\ Len(children) = Len(expected)
            /\ \A j \in 1..Len(children) :
                  /\ j <= Len(expected)
                  /\ children[j].tag = expected[j][1]
                  /\ children[j].text = record[expected[j][1]]

\* ------------------------------------------------ claims on pure functions
SameLetter(c, d) ==
    c = d \/ \E i \in 1..Len(UpperChars) : {c, d} = {UpperChars[i], LowerChars[i]}

EqualIgnoringCase(a, b) ==
    Len(a) = Len(b) /\ \A i \in 1..Len(a) : SameLetter(a[i], b[i])

LabelOf(product_data) ==
    IF "quantity_label" \in DOMAIN product_data THEN product_data["quantity_label"] ELSE <<>>

\* C7: 'available' is the stock vocabulary's entry for the token that the
\* quantity_label equals when letter case is ignored, and
\* DEFAULTS['available'] when the label equals no token, is empty or is
\* missing.
C7_StockLookup ==
    tp.called =>
        LET label == LabelOf(tp.product_data)
        IN  /\ \A token \in DOMAIN STOCK_MAPPING :
                  EqualIgnoringCase(label, token) =>
                      tp.out.available = STOCK_MAPPING[token]
            /\ (\A token \in DOMAIN STOCK_MAPPING : ~EqualIgnoringCase(label, token)) =>
                  tp.out.available = DEFAULTS.available

C7_Witness ==
    /\ tp.called
    /\ LabelOf(tp.product_data) = <<"I", "n", "S", "t", "o", "c", "k">>
    /\ tp.out.available = Da

\* t is s without its leading and trailing whitespace.
IsStripOf(t, s) ==
    \E i \in 1..(Len(s) + 1) :
        /\ i + Len(t) - 1 <= Len(s)
        /\ t = SubSeq(s, i, i + Len(t) - 1)
        /\ \A j \in 1..(i - 1) : s[j] \in Whitespace
        /\ \A j \in (i + Len(t))..Len(s) : s[j] \in Whitespace
        /\ t # <<>> => t[1] \notin Whitespace /\ t[Len(t)] \notin Whitespace

\* C9 as stated: whenever the evaluation yields one or more results, the
\* value returned is the first result coerced to text (str) and stripped, or
\* the default when that is empty; with no results or an error, the default.
C9_FirstResultCoerced ==
    ex.called =>
        IF ex.result.kind = "list" /\ ex.result.items # <<>>
        THEN LET t == strip(ex.result.items[1].str)
             IN  ex.out = IF t # <<>> THEN t ELSE ex.default
        ELSE ex.result.kind \in {"raise", "list"} => ex.out = ex.default

\* C9 amended: extract_text always returns; a first result that is text is
\* returned stripped, or the default when nothing is left; a first result
\* that is not text (an element), no result, an evaluation error and a
\* number or boolean result all give the default; a string result gives its
\* first character, or the default when that is whitespace.
C9_ExtractText ==
    ex.called =>
        LET r == ex.result
        IN  /\ (r.kind = "list" /\ r.items # <<>> /\ r.items[1].isstr) =>
                  \E n \in 0..Len(r.items[1].str) : \E i \in 1..(Len(r.items[1].str) + 1) :
                     LET t == SubSeq(r.items[1].str, i, i + n - 1)
                     IN  /\ IsStripOf(t, r.items[1].str)
                         /\ ex.out = IF t # <<>> THEN t ELSE ex.default
            /\ (r.kind = "list" /\ r.items # <<>> /\ ~r.items[1].isstr) =>
                  ex.out = ex.default
            /\ (r.kind = "list" /\ r.items = <<>>) => ex.out = ex.default
            /\ r.kind \in {"raise", "number", "bool"} => ex.out = ex.default
            /\ r.kind = "string" =>
                  ex.out = IF r.text # <<>> /\ r.text[1] \notin Whitespace
                           THEN <<r.text[1]>> ELSE ex.default
            /\ ex.out = <<>> => ex.default = <<>>

C9_Witness ==
    /\ ex.called
    /\ ex.result.kind = "list"
    /\ Len(ex.result.items) = 2
    /\ ex.result.items[1] = ElementResult
    /\ ex.default = NA
    /\ ex.out = NA

====
